---------------------------- MODULE Spec2Model ----------------------------
(***************************************************************************)
(* A model of src/generate_images.py: the slice merger (merge_slices), the *)
(* tile classifier (type_of_hex), the statistics report                    *)
(* (gather_statistics) and the per-tile step of the equirectangular        *)
(* renderer (save_equirectangular).                                        *)
(*                                                                         *)
(* Units.  The source works on floats; the model keeps every quantity as   *)
(* an integer in a unit fine enough for the thresholds of the source:      *)
(*   elevation      metres                                                 *)
(*   lai            hundredths            (FOREST_LAI 6.5 is 650)          *)
(*   temperature    hundredths of a kelvin (30 + 273.15 is 30315)          *)
(*   precipitation  units of 1e-9          (2e-8 is 20)                    *)
(*   snow           quarters               (0.75 is 3, full cover 1 is 4)  *)
(*   angles         eighths of a turn      (pi is 4, pi/2 is 2)            *)
(*   percentages    hundredths of a percent, as the report prints them     *)
(***************************************************************************)
EXTENDS Integers, Sequences, FiniteSets, TLC

VARIABLES
    planet,       \* type_of_hex: the seasons' records of the tile hx
    tpe,          \* type_of_hex: the label returned ("none" before the call)
    hex_types,    \* gather_statistics: the label of every tile
    report,       \* gather_statistics: the 20 percentages ("none" before the call)
    raw,          \* merge_slices: the imported planet, seasons of slices
    merged,       \* merge_slices: outcome, new_planet and planet_size
    cart_coords,  \* save_equirectangular: the subdivided boundary of one tile
    drawn         \* save_equirectangular: outcome and polygons drawn for the tile

vars == <<planet, tpe, hex_types, report, raw, merged, cart_coords, drawn>>

-----------------------------------------------------------------------------
(* Bounds of the model *)

MaxSeasons == 2
MaxTiles == 3
MaxSlices == 2
MaxVertices == 3

-----------------------------------------------------------------------------
(* Settings for the tile's classification *)

MOUNTAIN_ELEVATION == 1000
HILL_ELEVATION == 500
MID_OCEAN == -1500
DEEP_OCEAN == -3500

HEAVY_FOREST_LAI == 800
FOREST_LAI == 650
SAVANNA_TUNDRA_LAI == 598
LAND_LAI == 400
SAVANNA_MIN_TEMPERATURE == 30315

SAND_DESERT_MIN_TEMPERATURE == 28315
SNOW_DESERT_MAX_TEMPERATURE == 28315

WETLANDS_PRECIPITATION == 20

JUNGLE_SEASONAL_LAI_VARIATION == 200
BOREAL_SEASONAL_LAI_VARIATION == 650
DECIDUOUS_SEASONAL_LAI_VARIATION == 800
JUNGLE_MIN_TEMPERATURE == 30315

SEASONAL_SNOW_RATIO == 3

\* The number of pixels for 1 degree of latitude and longitude
EQUIRECTANGULAR_DEGREE == 20

\* pi, in eighths of a turn
PI == 4

COLORS ==
       ("Jungle Forest" :> <<94, 178, 106>>)
    @@ ("Heavy Jungle Forest" :> <<94, 178, 106>>)
    @@ ("Deciduous Forest" :> <<156, 204, 99>>)
    @@ ("Heavy Deciduous Forest" :> <<156, 204, 99>>)
    @@ ("Mixed Forest" :> <<122, 178, 69>>)
    @@ ("Heavy Mixed Forest" :> <<122, 178, 69>>)
    @@ ("Boreal Forest" :> <<79, 158, 69>>)
    @@ ("Heavy Boreal Forest" :> <<79, 158, 69>>)
    @@ ("Snowy Boreal Forest" :> <<229, 229, 229>>)
    @@ ("Heavy Snowy Boreal Forest" :> <<229, 229, 229>>)
    @@ ("Grass" :> <<160, 215, 107>>)
    @@ ("Sand Desert" :> <<242, 227, 120>>)
    @@ ("Bare Land" :> <<168, 159, 109>>)
    @@ ("Snow Desert" :> <<229, 229, 229>>)
    @@ ("Savanna" :> <<202, 227, 110>>)
    @@ ("Tundra" :> <<160, 215, 107>>)
    @@ ("Swamp" :> <<161, 214, 158>>)
    @@ ("Marsh" :> <<173, 222, 166>>)
    @@ ("Hill Jungle Forest" :> <<97, 135, 66>>)
    @@ ("Hill Deciduous Forest" :> <<154, 180, 66>>)
    @@ ("Hill Mixed Forest" :> <<132, 159, 45>>)
    @@ ("Hill Boreal Forest" :> <<103, 139, 47>>)
    @@ ("Hill Snowy Boreal Forest" :> <<229, 229, 229>>)
    @@ ("Hill Savanna" :> <<217, 219, 112>>)
    @@ ("Hill Tundra" :> <<160, 215, 107>>)
    @@ ("Mountain Jungle Forest" :> <<199, 143, 0>>)
    @@ ("Mountains Jungle Forest" :> <<178, 128, 0>>)
    @@ ("Mountain Deciduous Forest" :> <<199, 143, 0>>)
    @@ ("Mountains Deciduous Forest" :> <<178, 128, 0>>)
    @@ ("Mountain Mixed Forest" :> <<199, 143, 0>>)
    @@ ("Mountains Mixed Forest" :> <<178, 128, 0>>)
    @@ ("Mountain Boreal Forest" :> <<199, 143, 0>>)
    @@ ("Mountains Boreal Forest" :> <<178, 128, 0>>)
    @@ ("Mountain Snowy Boreal Forest" :> <<199, 143, 0>>)
    @@ ("Mountains Snowy Boreal Forest" :> <<178, 128, 0>>)
    @@ ("Mountain" :> <<199, 143, 0>>)
    @@ ("Mountains" :> <<178, 128, 0>>)
    @@ ("Snowy Mountain" :> <<199, 143, 0>>)
    @@ ("Snowy Mountains" :> <<178, 128, 0>>)
    @@ ("Surface Ocean" :> <<29, 78, 145>>)
    @@ ("Mid Ocean" :> <<18, 45, 95>>)
    @@ ("Deep Ocean" :> <<8, 20, 49>>)

-----------------------------------------------------------------------------
(* Python built-ins on lists *)

RECURSIVE sum(_)
sum(lst) == IF lst = <<>> THEN 0 ELSE lst[1] + sum(Tail(lst))

max(lst) == CHOOSE v \in {lst[i] : i \in 1..Len(lst)} :
                \A i \in 1..Len(lst) : lst[i] <= v

min(lst) == CHOOSE v \in {lst[i] : i \in 1..Len(lst)} :
                \A i \in 1..Len(lst) : v <= lst[i]

-----------------------------------------------------------------------------
(* type_of_hex *)

seasonal(p, param) == [i \in 1..Len(p) |-> p[i][param]]

spread(lst) == max(lst) - min(lst)

hex_elevation_last(p) == p[Len(p)].elevation

hex_elevation(p) == p[1].elevation

snowy_threshold(p) == SEASONAL_SNOW_RATIO * Len(p)

oceans(elevation) ==
    IF elevation < DEEP_OCEAN THEN "Deep Ocean"
    ELSE IF elevation < MID_OCEAN THEN "Mid Ocean"
    ELSE IF elevation < 0 THEN "Surface Ocean"
    ELSE ""

wetlands_all_ge(p) ==
    LET precip == seasonal(p, "precipitation")
        snow == seasonal(p, "snow")
    IN  /\ hex_elevation(p) <= HILL_ELEVATION
        /\ \A i \in 1..Len(p) : precip[i] >= WETLANDS_PRECIPITATION \/ snow[i] > 0
        /\ sum(snow) < snowy_threshold(p)

wetlands(p) ==
    LET precip == seasonal(p, "precipitation")
        snow == seasonal(p, "snow")
    IN  /\ hex_elevation(p) < HILL_ELEVATION
        /\ \A i \in 1..Len(p) : precip[i] > WETLANDS_PRECIPITATION \/ snow[i] > 0
        /\ sum(snow) < snowy_threshold(p)

wetland_type(p) ==
    IF max(seasonal(p, "lai")) > SAVANNA_TUNDRA_LAI THEN "Swamp" ELSE "Marsh"

\* the forest sub-type with the boreal spread tested before the snow
forest_type_boreal_first(p) ==
    LET lai == seasonal(p, "lai")
        snow == seasonal(p, "snow")
        temp == seasonal(p, "temperature")
    IN  IF /\ spread(lai) < JUNGLE_SEASONAL_LAI_VARIATION
           /\ min(temp) > JUNGLE_MIN_TEMPERATURE
           /\ sum(snow) < snowy_threshold(p)
        THEN "Jungle Forest"
        ELSE IF spread(lai) < BOREAL_SEASONAL_LAI_VARIATION
        THEN "Boreal Forest"
        ELSE IF sum(snow) >= snowy_threshold(p)
        THEN "Snowy Boreal Forest"
        ELSE IF spread(lai) > DECIDUOUS_SEASONAL_LAI_VARIATION
        THEN "Deciduous Forest"
        ELSE "Mixed Forest"

forest_type(p) ==
    LET lai == seasonal(p, "lai")
        snow == seasonal(p, "snow")
        temp == seasonal(p, "temperature")
    IN  IF /\ spread(lai) < JUNGLE_SEASONAL_LAI_VARIATION
           /\ min(temp) > JUNGLE_MIN_TEMPERATURE
           /\ sum(snow) < snowy_threshold(p)
        THEN "Jungle Forest"
        ELSE IF \/ spread(lai) < BOREAL_SEASONAL_LAI_VARIATION
                \/ sum(snow) >= snowy_threshold(p)
        THEN IF sum(snow) < snowy_threshold(p)
             THEN "Boreal Forest"
             ELSE "Snowy Boreal Forest"
        ELSE IF spread(lai) > DECIDUOUS_SEASONAL_LAI_VARIATION
        THEN "Deciduous Forest"
        ELSE "Mixed Forest"

mountain_name_flipped(elevation) ==
    IF elevation % 2 = 0 THEN "Mountains" ELSE "Mountain"

mountain_name(elevation) ==
    IF elevation % 2 = 0 THEN "Mountain" ELSE "Mountains"

forest_modifier_stacked(p, result) ==
    LET elevation == hex_elevation(p)
        heavy == IF max(seasonal(p, "lai")) > HEAVY_FOREST_LAI
                 THEN "Heavy " \o result ELSE result
    IN  IF elevation > MOUNTAIN_ELEVATION
        THEN mountain_name(elevation) \o " " \o heavy
        ELSE IF elevation > HILL_ELEVATION
        THEN "Hill " \o heavy
        ELSE heavy

forest_modifier(p, result) ==
    LET elevation == hex_elevation(p)
    IN  IF elevation > MOUNTAIN_ELEVATION
        THEN mountain_name(elevation) \o " " \o result
        ELSE IF elevation > HILL_ELEVATION
        THEN "Hill " \o result
        ELSE IF max(seasonal(p, "lai")) > HEAVY_FOREST_LAI
        THEN "Heavy " \o result
        ELSE result

\* t - elevation / 100 < 0 in kelvin is t - elevation < 0 in hundredths
mountain_snowy_min(p) ==
    LET snow == seasonal(p, "snow")
        temp == seasonal(p, "temperature")
    IN  \/ sum(snow) >= snowy_threshold(p)
        \/ min([i \in 1..Len(p) |-> temp[i] - hex_elevation(p)]) < 0

mountain_snowy(p) ==
    LET snow == seasonal(p, "snow")
        temp == seasonal(p, "temperature")
    IN  \/ sum(snow) >= snowy_threshold(p)
        \/ max([i \in 1..Len(p) |-> temp[i] - hex_elevation(p)]) < 0

bare_mountain(p) ==
    LET result == mountain_name(hex_elevation(p))
    IN  IF mountain_snowy(p) THEN "Snowy " \o result ELSE result

sparse_woody(p) ==
    LET result == IF min(seasonal(p, "temperature")) > SAVANNA_MIN_TEMPERATURE
                  THEN "Savanna" ELSE "Tundra"
    IN  IF hex_elevation(p) > HILL_ELEVATION THEN "Hill " \o result ELSE result

no_trees(p) ==
    LET lai == seasonal(p, "lai")
        snow == seasonal(p, "snow")
        temp == seasonal(p, "temperature")
    IN  IF sum(snow) >= snowy_threshold(p) THEN "Snow Desert"
        ELSE IF max(lai) > LAND_LAI THEN "Grass"
        ELSE IF min(temp) > SAND_DESERT_MIN_TEMPERATURE THEN "Sand Desert"
        ELSE IF max(temp) < SNOW_DESERT_MAX_TEMPERATURE THEN "Snow Desert"
        ELSE "Bare Land"

type_of_hex(p) ==
    LET lai == seasonal(p, "lai")
        elevation == hex_elevation(p)
    IN  IF oceans(elevation) # "" THEN oceans(elevation)
        ELSE IF wetlands(p) THEN wetland_type(p)
        ELSE IF max(lai) > FOREST_LAI THEN forest_modifier(p, forest_type(p))
        ELSE IF elevation > MOUNTAIN_ELEVATION THEN bare_mountain(p)
        ELSE IF max(lai) > SAVANNA_TUNDRA_LAI THEN sparse_woody(p)
        ELSE no_trees(p)

-----------------------------------------------------------------------------
(* The tile classifier on one tile: the inputs are drawn around the        *)
(* thresholds of the settings, then type_of_hex is applied.                *)

LandElevations == {0, 500, 1000, 1100, 1101}
OceanElevations == {-4000, -3500, -1500}
ElevationValues == LandElevations \cup OceanElevations
LaiValues == {0, 598, 650, 700, 900}
PrecipitationValues == {20, 30}
SnowValues == {0, 3}
TemperatureValues == {500, 28315, 31000}

TileParameters(elevations, lais, snows, temperatures) ==
    [elevation : elevations, lai : lais, precipitation : PrecipitationValues,
     snow : snows, temperature : temperatures]

\* planet holds the records of one tile over 1..MaxSeasons seasons: season 0
\* with an elevation of first, the later seasons with an elevation of later
TileSeasons(first, later, lais, snows, temperatures) ==
    \E n \in 1..MaxSeasons :
        \E season0 \in TileParameters(first, lais, snows, temperatures) :
            \E rest \in [1..(n - 1) -> TileParameters(later, lais, snows, temperatures)] :
                planet = <<season0>> \o rest

NoStatistics == /\ hex_types = <<>>
                /\ report = [status |-> "none"]

NoMerge == /\ raw = <<>>
           /\ merged = [status |-> "none"]

NoDrawing == /\ cart_coords = <<>>
             /\ drawn = [status |-> "none"]

LaterElevations == {-4000, 1100}
OceanLais == {0, 700}
OceanSnows == {0, 4}
OceanTemperatures == {500, 31000}

\* elevation is the same in every season of a tile; no rule after the
\* ocean tiers reads the parameters of a tile below sea level, which are
\* drawn from the smaller sets
InitClassify ==
    /\ \/ \E e \in LandElevations :
            TileSeasons({e}, {e}, LaiValues, SnowValues, TemperatureValues)
       \/ \E e \in OceanElevations :
            TileSeasons({e}, {e}, OceanLais, OceanSnows, OceanTemperatures)
    /\ tpe = "none"
    /\ NoStatistics /\ NoMerge /\ NoDrawing

\* tpe = type_of_hex(hx, planet)
Classify ==
    /\ tpe = "none"
    /\ planet # <<>>
    /\ tpe' = type_of_hex(planet)
    /\ UNCHANGED <<planet, hex_types, report, raw, merged, cart_coords, drawn>>

NextClassify == Classify

SpecClassify == InitClassify /\ [][NextClassify]_vars

(* Tiles above MOUNTAIN_ELEVATION without forest, around the thresholds of *)
(* the bare mountain rule                                                  *)

MountainElevations == {1100, 1101}
MountainLais == {0, 650}
MountainSnows == {0, 3, 4}
MountainTemperatures == {500, 1100, 1150, 28315}

InitMountain ==
    /\ \E e \in MountainElevations :
          TileSeasons({e}, {e}, MountainLais, MountainSnows, MountainTemperatures)
    /\ tpe = "none"
    /\ NoStatistics /\ NoMerge /\ NoDrawing

SpecMountain == InitMountain /\ [][NextClassify]_vars

(* Tiles whose records of the later seasons hold another elevation than    *)
(* the record of season 0                                                  *)

InitOcean ==
    /\ TileSeasons(ElevationValues, LaterElevations, OceanLais, OceanSnows,
                   OceanTemperatures)
    /\ tpe = "none"
    /\ NoStatistics /\ NoMerge /\ NoDrawing

SpecOcean == InitOcean /\ [][NextClassify]_vars

-----------------------------------------------------------------------------
(* Properties of type_of_hex.  They read the inputs from planet itself, so *)
(* that they say what the label must be without using the classifier's    *)
(* own definitions.                                                        *)

Classified == tpe # "none"
SeasonCount == Len(planet)
Elevation0 == planet[1].elevation
PeakLai == max([i \in 1..SeasonCount |-> planet[i].lai])
SnowSum == sum([i \in 1..SeasonCount |-> planet[i].snow])
SnowySeasons == SnowSum >= SEASONAL_SNOW_RATIO * SeasonCount
HasPrefix(label, prefix) ==
    /\ Len(label) >= Len(prefix)
    /\ SubSeq(label, 1, Len(prefix)) = prefix

\* C1: for every tile of a planet of one or more seasons the label that
\* type_of_hex returns is a key of the COLORS table.  (That the call returns
\* on every input is what Classify shows: it is defined on every planet
\* drawn, and a pure operator gives the same label for the same inputs.)
C1_LabelIsColorKey == Classified => tpe \in DOMAIN COLORS

C1_Witness ==
    /\ Classified
    /\ tpe = "Heavy Snowy Boreal Forest"
    /\ SeasonCount = MaxSeasons

BareMountainCase ==
    /\ Classified
    /\ Elevation0 > MOUNTAIN_ELEVATION
    /\ PeakLai <= FOREST_LAI

\* C2 as stated: above MOUNTAIN_ELEVATION and without forest, the label has
\* the 'Snowy ' prefix iff the snow sum reaches the snowy threshold or the
\* MINIMUM over the seasons of temperature - elevation/100 is below zero.
C2_SnowyIffMinBelowZero ==
    BareMountainCase =>
        (HasPrefix(tpe, "Snowy ") <=>
            \/ SnowySeasons
            \/ \E i \in 1..SeasonCount : planet[i].temperature - Elevation0 < 0)

\* C2 amended: above MOUNTAIN_ELEVATION and without forest, the label has
\* the 'Snowy ' prefix iff the snow sum reaches the snowy threshold or the
\* MAXIMUM over the seasons of temperature - elevation/100 is below zero,
\* that is temperature - elevation/100 is below zero in every season.
C2_SnowyIffMaxBelowZero ==
    BareMountainCase =>
        (HasPrefix(tpe, "Snowy ") <=>
            \/ SnowySeasons
            \/ \A i \in 1..SeasonCount : planet[i].temperature - Elevation0 < 0)

C2_Witness ==
    /\ BareMountainCase
    /\ SeasonCount >= 2
    /\ ~SnowySeasons
    /\ \A i \in 1..SeasonCount : planet[i].temperature - Elevation0 < 0
    /\ \E i, j \in 1..SeasonCount : planet[i].temperature # planet[j].temperature
    /\ HasPrefix(tpe, "Snowy ")

C3_Case ==
    /\ Classified
    /\ SeasonCount = 2
    /\ Elevation0 = 1100
    /\ PeakLai <= FOREST_LAI
    /\ planet[1].snow = 4 /\ planet[2].snow = 4

\* C3 as stated: in a two-season planet a tile with elevation 1100, no
\* forest and snow = [1, 1] is classified 'Snowy Mountains'.
C3_SnowyMountainsPlural == C3_Case => tpe = "Snowy Mountains"

\* C3 amended: in a two-season planet a tile with elevation 1100, no forest
\* and snow = [1, 1] is classified 'Snowy Mountain': 1100 is even, and the
\* parity rule gives an even elevation the singular form; whatever its
\* temperature and precipitation values.
C3_SnowyMountainSingular == C3_Case => tpe = "Snowy Mountain"

C3_Witness ==
    /\ C3_Case
    /\ tpe = "Snowy Mountain"
    /\ planet[1].temperature # planet[2].temperature
    /\ planet[1].precipitation # planet[2].precipitation

WetlandCondition ==
    /\ Elevation0 < HILL_ELEVATION
    /\ \A i \in 1..SeasonCount :
          planet[i].precipitation > WETLANDS_PRECIPITATION \/ planet[i].snow > 0
    /\ ~SnowySeasons

\* C4: for a tile with season-0 elevation >= 0 the label is 'Swamp' or
\* 'Marsh' iff elevation < HILL_ELEVATION and every season has
\* precipitation > WETLANDS_PRECIPITATION or snow > 0 and the snow sum is
\* below the snowy threshold; it is then 'Swamp' when the peak LAI exceeds
\* SAVANNA_TUNDRA_LAI and 'Marsh' otherwise, also when the peak LAI exceeds
\* FOREST_LAI (the wetland rule comes before the forest rule).
C4_WetlandIff ==
    (Classified /\ Elevation0 >= 0) =>
        /\ tpe \in {"Swamp", "Marsh"} <=> WetlandCondition
        /\ WetlandCondition =>
              tpe = IF PeakLai > SAVANNA_TUNDRA_LAI THEN "Swamp" ELSE "Marsh"

C4_Witness ==
    /\ Classified
    /\ WetlandCondition
    /\ PeakLai > FOREST_LAI
    /\ \E i \in 1..SeasonCount :
          planet[i].precipitation <= WETLANDS_PRECIPITATION /\ planet[i].snow > 0
    /\ tpe = "Swamp"

\* C5: whenever the season-0 elevation is below DEEP_OCEAN the label is
\* 'Deep Ocean', whatever the lai, precipitation, snow and temperature of
\* any season and whatever elevation the records of the later seasons hold.
C5_DeepOceanDominates ==
    (Classified /\ Elevation0 < DEEP_OCEAN) => tpe = "Deep Ocean"

C5_Witness ==
    /\ Classified
    /\ Elevation0 < DEEP_OCEAN
    /\ SeasonCount >= 2
    /\ planet[2].elevation > MOUNTAIN_ELEVATION
    /\ PeakLai > FOREST_LAI
    /\ tpe = "Deep Ocean"

-----------------------------------------------------------------------------
(* gather_statistics *)

\* word in key
key_contains(key, word) ==
    \E i \in 1..(Len(key) - Len(word) + 1) : SubSeq(key, i, i + Len(word) - 1) = word

\* Counter(hex_types.values())
Counter(hexes) ==
    [k \in {hexes[i] : i \in 1..Len(hexes)} |->
        Cardinality({i \in 1..Len(hexes) : hexes[i] = k})]

RECURSIVE sum_values(_, _)
sum_values(dct, keys) ==
    IF keys = {} THEN 0
    ELSE LET k == CHOOSE k \in keys : TRUE
         IN  dct[k] + sum_values(dct, keys \ {k})

key_include(dct, word) ==
    sum_values(dct, {key \in DOMAIN dct : key_contains(key, word)})

\* n / m on numbers: the quotient as a fraction, or the error Python raises
divide(n, m) ==
    IF m = 0 THEN [error |-> "ZeroDivisionError"]
    ELSE [error |-> "", num |-> n, den |-> m]

times100(q) ==
    IF q.error # "" THEN q ELSE [q EXCEPT !.num = 100 * q.num]

prc_unguarded(n, m) == times100(divide(n, m))

prc(n, m) == IF m > 0 THEN times100(divide(n, m)) ELSE divide(0, 1)

\* "{:.2f}" of a fraction, in hundredths: cut after the second decimal
format_2f_truncate(q) == (100 * q.num) \div q.den

\* "{:.2f}" of a fraction, in hundredths: rounded to the nearest, a tie to
\* the even neighbour
format_2f(q) ==
    LET whole == (100 * q.num) \div q.den
        rest == (100 * q.num) % q.den
    IN  IF 2 * rest > q.den THEN whole + 1
        ELSE IF 2 * rest < q.den THEN whole
        ELSE IF whole % 2 = 0 THEN whole ELSE whole + 1

gather_statistics(types) ==
    LET count == Counter(types)
        total == sum_values(count, DOMAIN count)
        water == key_include(count, "Ocean")
        land == total - water
        hill == key_include(count, "Hill")
        mountain == key_include(count, "Mountain")
        flat == land - hill - mountain
        jungle == key_include(count, "Jungle")
        deciduous == key_include(count, "Deciduous")
        boreal == key_include(count, "Boreal")
        mixed == key_include(count, "Mixed")
        forest == key_include(count, "Forest")
        savanna == key_include(count, "Savanna")
        tundra == key_include(count, "Tundra")
        grass == key_include(count, "Grass")
        sand_desert == key_include(count, "Sand Desert")
        snow_desert == key_include(count, "Snow Desert")
        bare_land == key_include(count, "Bare Land")
        all_deserts == sand_desert + snow_desert + bare_land
        marsh == key_include(count, "Marsh")
        swamp == key_include(count, "Swamp")
        wetlands_count == marsh + swamp
        params ==
            <<prc(water, total), prc(land, total), prc(hill, land),
              prc(mountain, land), prc(flat, land),
              prc(forest, land), prc(jungle, forest), prc(deciduous, forest),
              prc(boreal, forest), prc(mixed, forest),
              prc(savanna, land), prc(tundra, land), prc(grass, land),
              prc(all_deserts, land), prc(sand_desert, all_deserts),
              prc(snow_desert, all_deserts), prc(bare_land, all_deserts),
              prc(wetlands_count, land), prc(marsh, wetlands_count),
              prc(swamp, wetlands_count)>>
    IN  IF \E i \in 1..Len(params) : params[i].error # ""
        THEN [status |-> "ZeroDivisionError"]
        ELSE [status |-> "returned",
              params |-> [i \in 1..Len(params) |-> format_2f(params[i])]]

(* The report on a mapping of up to MaxTiles tiles.  The labels are keys   *)
(* of COLORS with every word the report searches for, alone and combined.  *)

StatisticsLabels ==
    {"Deep Ocean", "Surface Ocean", "Jungle Forest", "Heavy Deciduous Forest",
     "Hill Mixed Forest", "Mountains Snowy Boreal Forest", "Boreal Forest",
     "Snowy Mountain", "Hill Savanna", "Tundra", "Grass", "Sand Desert",
     "Snow Desert", "Bare Land", "Marsh", "Swamp"}

NoClassification == /\ planet = <<>>
                    /\ tpe = "none"

InitStatistics ==
    /\ hex_types \in UNION {[1..n -> StatisticsLabels] : n \in 0..MaxTiles}
    /\ report = [status |-> "none"]
    /\ NoClassification /\ NoMerge /\ NoDrawing

\* gather_statistics(converted_tiles)
GatherStatistics ==
    /\ report.status = "none"
    /\ report' = gather_statistics(hex_types)
    /\ UNCHANGED <<planet, tpe, hex_types, raw, merged, cart_coords, drawn>>

NextStatistics == GatherStatistics

SpecStatistics == InitStatistics /\ [][NextStatistics]_vars

(* Properties of gather_statistics.  The counts are taken from hex_types   *)
(* itself.                                                                 *)

Reported == report.status # "none"
TilesWith(word) ==
    Cardinality({i \in 1..Len(hex_types) : key_contains(hex_types[i], word)})
TotalTiles == Len(hex_types)
LandTiles == TotalTiles - TilesWith("Ocean")
ForestTiles == TilesWith("Forest")
DesertTiles == TilesWith("Sand Desert") + TilesWith("Snow Desert") + TilesWith("Bare Land")
WetlandTiles == TilesWith("Marsh") + TilesWith("Swamp")

ZeroAt(positions) == \A i \in positions : report.params[i] = 0

\* C7: gather_statistics completes without an error, and every percentage
\* whose denominator count (total, land, forest, all_deserts, wetlands) is
\* zero is reported as 0.
C7_ZeroDenominatorGivesZero ==
    Reported =>
        /\ report.status = "returned"
        /\ TotalTiles = 0 => ZeroAt({1, 2})
        /\ LandTiles = 0 => ZeroAt({3, 4, 5, 6, 11, 12, 13, 14, 18})
        /\ ForestTiles = 0 => ZeroAt({7, 8, 9, 10})
        /\ DesertTiles = 0 => ZeroAt({15, 16, 17})
        /\ WetlandTiles = 0 => ZeroAt({19, 20})

C7_Witness ==
    /\ Reported
    /\ report.status = "returned"
    /\ TotalTiles = MaxTiles
    /\ LandTiles = 0
    /\ report.params[1] = 10000
    /\ ZeroAt(3..20)

-----------------------------------------------------------------------------
(* merge_slices *)

\* int(((1 + 8 * n) ** 0.5 + 1) / 4): the largest p with 4p - 1 <= sqrt(1 + 8n)
planet_size_of(n) ==
    CHOOSE p \in 0..n :
        /\ p = 0 \/ (4 * p - 1) * (4 * p - 1) <= 1 + 8 * n
        /\ (4 * p + 3) * (4 * p + 3) > 1 + 8 * n

\* corrected_hx = hx[0] + (planet_size - 1) * i, hx[1]
corrected_hx(hx, i, planet_size) == <<hx[1] + (planet_size - 1) * i, hx[2]>>

\* the loop over the items of slice i: a tile enters the season's output
\* unless its corrected coordinate is already there
add_slice_last_wins(season_out, sl, i, planet_size) ==
    LET corrected == {corrected_hx(hx, i, planet_size) : hx \in DOMAIN sl}
        origin(c) == CHOOSE hx \in DOMAIN sl : corrected_hx(hx, i, planet_size) = c
    IN  [c \in DOMAIN season_out \cup corrected |->
            IF c \in corrected THEN sl[origin(c)] ELSE season_out[c]]

add_slice(season_out, sl, i, planet_size) ==
    LET corrected == {corrected_hx(hx, i, planet_size) : hx \in DOMAIN sl}
        origin(c) == CHOOSE hx \in DOMAIN sl : corrected_hx(hx, i, planet_size) = c
    IN  [c \in DOMAIN season_out \cup corrected |->
            IF c \in DOMAIN season_out THEN season_out[c] ELSE sl[origin(c)]]

\* for i, sl in enumerate(season), from slice k on (i = k - 1)
RECURSIVE merge_season(_, _, _, _)
merge_season(season_out, season, k, planet_size) ==
    IF k > Len(season) THEN season_out
    ELSE merge_season(add_slice(season_out, season[k], k - 1, planet_size),
                      season, k + 1, planet_size)

\* an empty dict
EmptyDict == [c \in {} |-> c]

merge_slices(p) ==
    IF Len(p) = 0 \/ Len(p[1]) = 0
    THEN [status |-> "IndexError"]
    ELSE LET planet_size == planet_size_of(Cardinality(DOMAIN p[1][1]))
         IN  [status |-> "returned",
              new_planet |-> [s \in 1..Len(p) |->
                                merge_season(EmptyDict, p[s], 1, planet_size)],
              planet_size |-> planet_size]

(* The imported planet: up to two seasons of up to MaxSlices slices.  A    *)
(* slice holds the hexes of a block of the grid, 0 to 2 wide and 0 to 3    *)
(* high (a block of 2 by 3 is the slice of a planet of size 2); the        *)
(* parameters of a tile name the season, slice and hex they come from, so  *)
(* that no two input tiles are alike.                                      *)

SliceWidths == 0..2
SliceHeights == 0..3
MergeSeasonCounts == 0..2

Slice(s, i, w, h) ==
    [hx \in (0..(w - 1)) \X (0..(h - 1)) |->
        [season |-> s, slice |-> i, hex |-> hx]]

Season(s, shapes) == [i \in 1..Len(shapes) |-> Slice(s, i, shapes[i][1], shapes[i][2])]

SeasonShapes ==
    UNION {[1..n -> (SliceWidths \ {0}) \X (SliceHeights \ {0}) \cup {<<0, 0>>}] :
             n \in 0..MaxSlices}

InitMerge ==
    /\ \E n \in MergeSeasonCounts :
          \E shapes \in [1..n -> SeasonShapes] :
              raw = [s \in 1..n |-> Season(s, shapes[s])]
    /\ merged = [status |-> "none"]
    /\ NoClassification /\ NoStatistics /\ NoDrawing

\* planet, planet_size = merge_slices(planet)
MergeSlices ==
    /\ merged.status = "none"
    /\ merged' = merge_slices(raw)
    /\ UNCHANGED <<planet, tpe, hex_types, report, raw, cart_coords, drawn>>

NextMerge == MergeSlices

SpecMerge == InitMerge /\ [][NextMerge]_vars

(* Properties of merge_slices, stated on raw and on the outcome.           *)

Merged == merged.status # "none"
Returned == merged.status = "returned"

\* where a tile of slice k (the k-th, index k - 1) of a season goes
GlobalOf(hx, k) == <<hx[1] + (merged.planet_size - 1) * (k - 1), hx[2]>>

\* the slices of season s holding a tile that goes to coordinate c
SlicesAt(s, c) ==
    {k \in 1..Len(raw[s]) : \E hx \in DOMAIN raw[s][k] : GlobalOf(hx, k) = c}

FirstSliceAt(s, c) == CHOOSE k \in SlicesAt(s, c) : \A j \in SlicesAt(s, c) : k <= j

TileAt(s, k, c) ==
    raw[s][k][CHOOSE hx \in DOMAIN raw[s][k] : GlobalOf(hx, k) = c]

\* C8: merge_slices re-addresses (x, y) of slice index i to
\* (x + (planet_size - 1) * i, y); in every season every re-addressed input
\* tile has its coordinate in the output, every coordinate of the output is
\* the re-addressed form of some input tile, and it stores the parameters
\* of the tile of the lowest slice index that maps to it.
C8_FirstSliceWins ==
    Returned =>
        /\ Len(merged.new_planet) = Len(raw)
        /\ \A s \in 1..Len(raw) :
              /\ \A k \in 1..Len(raw[s]) : \A hx \in DOMAIN raw[s][k] :
                    GlobalOf(hx, k) \in DOMAIN merged.new_planet[s]
              /\ \A c \in DOMAIN merged.new_planet[s] :
                    /\ SlicesAt(s, c) # {}
                    /\ merged.new_planet[s][c] = TileAt(s, FirstSliceAt(s, c), c)

C8_Witness ==
    /\ Returned
    /\ merged.planet_size = 2
    /\ Len(raw) = 2
    /\ \E c \in DOMAIN merged.new_planet[2] :
          /\ SlicesAt(2, c) = {1, 2}
          /\ merged.new_planet[2][c] = [season |-> 2, slice |-> 1, hex |-> c]
    /\ \E c \in DOMAIN merged.new_planet[2] :
          /\ SlicesAt(2, c) = {2}
          /\ merged.new_planet[2][c] = [season |-> 2, slice |-> 2, hex |-> <<c[1] - 1, c[2]>>]

\* the hex count of slice 0 of season 0 is p * (2p - 1) for a size p
TriangularForm(n) == \E p \in 0..n : n = p * (2 * p - 1)

Malformed ==
    /\ Len(raw) > 0
    /\ Len(raw[1]) > 0
    /\ \/ ~TriangularForm(Cardinality(DOMAIN raw[1][1]))
       \/ \E s \in 1..Len(raw) : \E k \in 1..Len(raw[s]) :
             Cardinality(DOMAIN raw[s][k]) # Cardinality(DOMAIN raw[1][1])

\* C9: when the hex count of slice 0 of season 0 is not of the triangular
\* form planet_size is derived from, or the hex counts of the slices are
\* inconsistent, merge_slices rejects the input and returns no merged
\* planet and no size.
C9_MalformedRejected == (Merged /\ Malformed) => ~Returned

-----------------------------------------------------------------------------
(* save_equirectangular, the geometry of one tile *)

(* A point of the unit sphere is written as a vector <<x, y, z>> of -1, 0   *)
(* and 1 and stands for that vector scaled to length 1.  The points are:   *)
(* the 8 points of the equator at every eighth of a turn, the 8 points at  *)
(* latitude pi/4 and -pi/4 over every quarter of a turn, and the 2 poles.  *)
SpherePoints ==
    {pt \in {-1, 0, 1} \X {-1, 0, 1} \X {-1, 0, 1} :
        \/ pt[3] = 0 /\ <<pt[1], pt[2]>> # <<0, 0>>
        \/ pt[3] # 0 /\ pt[1] * pt[1] + pt[2] * pt[2] <= 1}

\* acos(x / (x ** 2 + y ** 2) ** 0.5), for x ** 2 + y ** 2 > 0
acos_of(x, y) ==
    IF x > 0 THEN (IF y = 0 THEN 0 ELSE PI \div 4)
    ELSE IF x = 0 THEN PI \div 2
    ELSE (IF y = 0 THEN PI ELSE (3 * PI) \div 4)

\* lamb = lambda x, y: acos(...) * (1 if y > 0 else -1)
lamb(x, y) == acos_of(x, y) * (IF y > 0 THEN 1 ELSE -1)

\* phi = asin, on the z of the point scaled to length 1
phi(pt) ==
    IF pt[3] = 0 THEN 0
    ELSE IF pt[1] = 0 /\ pt[2] = 0 THEN (IF pt[3] > 0 THEN PI \div 2 ELSE -(PI \div 2))
    ELSE (IF pt[3] > 0 THEN PI \div 4 ELSE -(PI \div 4))

\* the loop of cart_to_spherical from point k on; a pole point divides by
\* zero in lamb, and the handler of that error reads new_lst[-1]
RECURSIVE cart_to_spherical_from(_, _, _)
cart_to_spherical_from(new_lst, lst, k) ==
    IF k > Len(lst) THEN [error |-> "", coords |-> new_lst]
    ELSE LET x == lst[k][1]
             y == lst[k][2]
         IN  IF x * x + y * y # 0
             THEN cart_to_spherical_from(Append(new_lst, <<lamb(x, y), phi(lst[k])>>),
                                         lst, k + 1)
             ELSE IF new_lst = <<>>
             THEN [error |-> "IndexError"]
             ELSE LET last_lamb == new_lst[Len(new_lst)][1]
                      last_phi == new_lst[Len(new_lst)][2]
                      max_phi == (PI \div 2) * (IF last_phi > 0 THEN 1 ELSE -1)
                  IN  cart_to_spherical_from(
                          new_lst \o <<<<last_lamb, max_phi>>, <<-last_lamb, max_phi>>>>,
                          lst, k + 1)

cart_to_spherical(lst) == cart_to_spherical_from(<<>>, lst, 1)

special_case(lst) ==
    /\ lst[1][1] < 0
    /\ ~ \/ \A i \in 1..Len(lst) : lst[i][2] > 0
         \/ \A i \in 1..Len(lst) : lst[i][2] < 0

\* [c if c[0] < 0 else (c[0] - 2 * pi, c[1]) for c in coords]
shift_west(coords) ==
    [i \in 1..Len(coords) |->
        IF coords[i][1] < 0 THEN coords[i] ELSE <<coords[i][1] - 2 * PI, coords[i][2]>>]

\* [c if c[0] > 0 else (c[0] + 2 * pi, c[1]) for c in coords]
shift_east(coords) ==
    [i \in 1..Len(coords) |->
        IF coords[i][1] > 0 THEN coords[i] ELSE <<coords[i][1] + 2 * PI, coords[i][2]>>]

all_coords_of(lst, coords) ==
    IF special_case(lst) THEN <<shift_west(coords), shift_east(coords)>> ELSE <<coords>>

\* ((lamb + pi) * 180 / pi * scale, (- phi + pi / 2) * 180 / pi * scale)
spherical_to_img(lst, scale) ==
    [i \in 1..Len(lst) |->
        <<(lst[i][1] + PI) * (180 \div PI) * scale,
          (-lst[i][2] + (PI \div 2)) * (180 \div PI) * scale>>]

\* the body of the loop over the tiles, for the tile whose subdivided
\* boundary is lst: the polygons drawn on the map (the height map gets the
\* same polygons)
draw_tile(lst) ==
    LET converted == cart_to_spherical(lst)
    IN  IF converted.error # ""
        THEN [status |-> converted.error]
        ELSE LET all_coords == all_coords_of(lst, converted.coords)
             IN  [status |-> "drawn",
                  coords |-> converted.coords,
                  all_coords |-> all_coords,
                  polygons |-> [n \in 1..Len(all_coords) |->
                                  spherical_to_img(all_coords[n], EQUIRECTANGULAR_DEGREE)]]

(* cart_coords is the boundary of the tile after divide_line: 1 to         *)
(* MaxVertices points of the sphere in any order.                          *)

InitDraw ==
    /\ cart_coords \in UNION {[1..n -> SpherePoints] : n \in 1..MaxVertices}
    /\ drawn = [status |-> "none"]
    /\ NoClassification /\ NoStatistics /\ NoMerge

DrawTile ==
    /\ drawn.status = "none"
    /\ drawn' = draw_tile(cart_coords)
    /\ UNCHANGED <<planet, tpe, hex_types, report, raw, merged, cart_coords>>

NextDraw == DrawTile

SpecDraw == InitDraw /\ [][NextDraw]_vars

(* Properties of the split at the antimeridian, stated on cart_coords and  *)
(* on what was drawn.                                                      *)

TileDone == drawn.status # "none"

Crossing ==
    /\ cart_coords[1][1] < 0
    /\ \E i \in 1..Len(cart_coords) : cart_coords[i][2] <= 0
    /\ \E i \in 1..Len(cart_coords) : cart_coords[i][2] >= 0

\* the polygon is the converted boundary, point for point, up to whole
\* turns of longitude
SameModuloTurn(polygon) ==
    /\ Len(polygon) = Len(drawn.coords)
    /\ \A i \in 1..Len(polygon) :
          /\ (polygon[i][1] - drawn.coords[i][1]) % (2 * PI) = 0
          /\ polygon[i][2] = drawn.coords[i][2]

SplitInTwo ==
    /\ Len(drawn.all_coords) = 2
    /\ Len(drawn.polygons) = 2
    /\ \A i \in 1..Len(drawn.all_coords[1]) : drawn.all_coords[1][i][1] < 0
    /\ \A i \in 1..Len(drawn.all_coords[2]) : drawn.all_coords[2][i][1] > 0
    /\ SameModuloTurn(drawn.all_coords[1])
    /\ SameModuloTurn(drawn.all_coords[2])

DrawnOnce ==
    /\ Len(drawn.all_coords) = 1
    /\ Len(drawn.polygons) = 1
    /\ drawn.all_coords[1] = drawn.coords

\* C10: a tile detected as antimeridian-crossing is drawn as exactly two
\* polygons, every other tile as exactly one; the first polygon has only
\* negative longitudes, the second only positive ones, and each point of
\* either equals the point of the converted boundary modulo 2*pi in
\* longitude, with the latitude unchanged.
C10_CrossingTileDrawnTwice ==
    TileDone =>
        /\ drawn.status = "drawn"
        /\ IF Crossing THEN SplitInTwo ELSE DrawnOnce

\* the same for the tiles whose conversion to longitude and latitude
\* completes
SplitWhenConverted ==
    drawn.status = "drawn" => IF Crossing THEN SplitInTwo ELSE DrawnOnce

SplitReached ==
    /\ drawn.status = "drawn"
    /\ Crossing
    /\ \E i \in 1..Len(drawn.coords) : drawn.coords[i][1] = 0
    /\ \E i \in 1..Len(drawn.coords) : drawn.coords[i][2] = PI \div 2

(* Properties of cart_to_spherical at the poles, stated on cart_coords and *)
(* on the converted boundary.                                              *)

IsPole(pt) == pt[1] * pt[1] + pt[2] * pt[2] = 0

PolePositions == {k \in 1..Len(cart_coords) : IsPole(cart_coords[k])}

\* where the first of the two points that replace the pole point k stands
\* in the converted boundary: every pole point before it added one point
ReplacedAt(k) == k + Cardinality({j \in PolePositions : j < k})

\* the latitude of the pole the point is at
PoleLatitude(pt) == IF pt[3] > 0 THEN PI \div 2 ELSE -(PI \div 2)

\* the pole point k is replaced by (last longitude, pole) and
\* (- last longitude, pole), the last longitude being that of the point
\* converted before it
PoleReplaced(k, pole_phi) ==
    LET at == ReplacedAt(k)
    IN  /\ at + 1 <= Len(drawn.coords)
        /\ drawn.coords[at][2] = pole_phi
        /\ drawn.coords[at + 1] = <<-drawn.coords[at][1], pole_phi>>
        /\ at > 1 => drawn.coords[at][1] = drawn.coords[at - 1][1]

\* C11: for every boundary with a pole point (x^2 + y^2 = 0) at any
\* position, the first included, the conversion completes, and the pole
\* point is replaced by the two points (last_longitude, +-pi/2) and
\* (-last_longitude, +-pi/2) at the pole it is at.
C11_PoleNeverFails ==
    (TileDone /\ PolePositions # {}) =>
        /\ drawn.status = "drawn"
        /\ Len(drawn.coords) = Len(cart_coords) + Cardinality(PolePositions)
        /\ \A k \in PolePositions : PoleReplaced(k, PoleLatitude(cart_coords[k]))

\* what the code does: with a point that is no pole at the first position
\* the conversion completes, and a pole point is replaced by two points at
\* the pole on the side of the latitude of the point converted before it
\* (the south pole when that latitude is 0)
PoleAfterFirstReplaced ==
    (TileDone /\ ~IsPole(cart_coords[1])) =>
        /\ drawn.status = "drawn"
        /\ Len(drawn.coords) = Len(cart_coords) + Cardinality(PolePositions)
        /\ \A k \in PolePositions :
              PoleReplaced(k, IF drawn.coords[ReplacedAt(k) - 1][2] > 0
                              THEN PI \div 2 ELSE -(PI \div 2))

\* the conversion fails exactly when the first point is a pole
PoleFirstFails ==
    TileDone => (drawn.status = "IndexError" <=> IsPole(cart_coords[1]))

-----------------------------------------------------------------------------
(* Forest tiles, around the thresholds of the forest rule: the spreads of  *)
(* LAI reach 50, 200, 650, 800 and 900, the elevations stand at and on     *)
(* either side of HILL_ELEVATION and MOUNTAIN_ELEVATION.                   *)

ForestElevations == {0, 600, 1000, 1100, 1101}
ForestLais == {0, 100, 700, 750, 900}
ForestSnows == {0, 3}
ForestTemperatures == {30315, 30500, 31000}

InitForest ==
    /\ \E e \in ForestElevations :
          TileSeasons({e}, {e}, ForestLais, ForestSnows, ForestTemperatures)
    /\ tpe = "none"
    /\ NoStatistics /\ NoMerge /\ NoDrawing

SpecForest == InitForest /\ [][NextClassify]_vars

LowLai == min([i \in 1..SeasonCount |-> planet[i].lai])
LaiSpread == PeakLai - LowLai
LowTemperature == min([i \in 1..SeasonCount |-> planet[i].temperature])

ForestCase ==
    /\ Classified
    /\ Elevation0 >= 0
    /\ ~WetlandCondition
    /\ PeakLai > FOREST_LAI

\* the sub-type, in the order of the claim, first match wins
ForestSubType ==
    IF /\ LaiSpread < JUNGLE_SEASONAL_LAI_VARIATION
       /\ LowTemperature > JUNGLE_MIN_TEMPERATURE
       /\ ~SnowySeasons
    THEN "Jungle Forest"
    ELSE IF SnowySeasons THEN "Snowy Boreal Forest"
    ELSE IF LaiSpread < BOREAL_SEASONAL_LAI_VARIATION THEN "Boreal Forest"
    ELSE IF LaiSpread > DECIDUOUS_SEASONAL_LAI_VARIATION THEN "Deciduous Forest"
    ELSE "Mixed Forest"

\* the labels with at most one prefix that the claim allows
ForestLabels ==
    IF Elevation0 > MOUNTAIN_ELEVATION
    THEN {"Mountain " \o ForestSubType, "Mountains " \o ForestSubType}
    ELSE IF Elevation0 > HILL_ELEVATION THEN {"Hill " \o ForestSubType}
    ELSE IF PeakLai > HEAVY_FOREST_LAI THEN {"Heavy " \o ForestSubType}
    ELSE {ForestSubType}

=============================================================================
